---- MODULE Spec2Model ----
(***************************************************************************)
(* Model of pretraining/roberta/data_utils.py (class TrainingDataset):     *)
(* whole-word masking of one text (sentence_process), greedy packing of a  *)
(* paragraph into fixed-length windows (paragraph_process, padding), and   *)
(* the driver that maps the packer over a corpus and writes the records    *)
(* (process, write_to_tfrecord).                                           *)
(*                                                                         *)
(* Python lists are sequences (1-based here, 0-based in the source).       *)
(* np.random.random() is modelled in hundredths: a draw is a number of     *)
(* RandVals and mask_rate is 15 (0.15).                                    *)
(***************************************************************************)
EXTENDS Integers, Sequences, FiniteSets

VARIABLES
    padding_length,  \* self.padding_length
    pc,              \* position in paragraph_process: "for", "zip", "unit", "done"
    token_ids,       \* paragraph_process: the accumulator's token ids
    mask_ids,        \* paragraph_process: the accumulator's mask ids
    results,         \* paragraph_process: the examples emitted so far
    returned,        \* the value paragraph_process returned
    words,           \* sentence_process: words of the current text
    widx,            \* sentence_process: position of the zip loop in words
    tokens,          \* sentence_process: tokens
    sent_mask_ids,   \* sentence_process: mask_ids
    _token_ids,      \* paragraph_process: _token_ids of the current text
    _mask_ids,       \* paragraph_process: _mask_ids of the current text
    units,           \* history: the truncated encodings of the texts processed
    closes,          \* history: one entry per overflow event
    dpc,             \* position in process: "start", "apply", "close", "print", "done"
    writer,          \* process: the TFRecordWriter: "none", "open", "closed"
    count,           \* globals()['count']
    sink,            \* the records written to the file, each with its paragraph
    printed,         \* the count process printed, -1 before it prints
    exhausted,       \* parallel_apply: the corpus iterator has ended
    n_in,            \* parallel_apply: paragraphs taken from the corpus
    in_queue,        \* parallel_apply: paragraphs waiting for a worker
    running,         \* parallel_apply: the paragraphs the workers hold
    out_queue,       \* parallel_apply: results waiting for the callback
    cb,              \* write_to_tfrecord: its results and loop position
    produced,        \* history: what paragraph_process returned per paragraph
    failed,          \* history: the paragraphs on which func raised
    other            \* another call of process in the same module: its position
                     \* and the callbacks it has run

packVars == <<padding_length, pc, token_ids, mask_ids, results, returned,
              words, widx, tokens, sent_mask_ids, _token_ids, _mask_ids,
              units, closes>>

driverVars == <<dpc, writer, count, sink, printed, exhausted, n_in, in_queue,
                running, out_queue, cb, produced>>

envVars == <<failed, other>>

vars == <<packVars, driverVars, envVars>>

-----------------------------------------------------------------------------
(* Bounds *)

MaxCap == 4      \* capacities 0..MaxCap are configured
MaxUnits == 4    \* texts per paragraph

MaxParas == 2    \* paragraphs in the corpus
MaxOtherBatches == 2  \* callbacks of a second call of process
workers == 2     \* process(workers=...)
max_queue_size == 1  \* process(max_queue_size=...)

(* Program constants *)

mask_rate == 15  \* mask_rate=0.15, in hundredths

Min(a, b) == IF a < b THEN a ELSE b
Max(a, b) == IF a > b THEN a ELSE b

-----------------------------------------------------------------------------
(* Python list primitives *)

\* sequence[:n]: the first n elements, or all but the last -n when n < 0
PySlice(sequence, n) ==
    IF n >= 0 THEN SubSeq(sequence, 1, Min(n, Len(sequence)))
              ELSE SubSeq(sequence, 1, Max(Len(sequence) + n, 0))

\* [0] * n: empty when n <= 0
Zeros(n) == IF n <= 0 THEN <<>> ELSE [i \in 1..n |-> 0]

\* [x] * n
Repeat(x, n) == IF n <= 0 THEN <<>> ELSE [i \in 1..n |-> x]

-----------------------------------------------------------------------------
(* The collaborators: vocabulary, tokenizer, word segmentation *)

\* tokenizer._token_dict
token_dict ==
    [t \in {"[PAD]", "[CLS]", "[SEP]", "a", "b", "##c"} |->
        CASE t = "[PAD]" -> 0
          [] t = "[CLS]" -> 1
          [] t = "[SEP]" -> 2
          [] t = "a"     -> 5
          [] t = "b"     -> 6
          [] t = "##c"   -> 7]

token_cls_id == token_dict["[CLS]"]
token_sep_id == token_dict["[SEP]"]

\* tokenizer.tokenize(word, add_cls=False, add_sep=False)
tokenize(word) ==
    CASE word = "a"  -> <<"a">>
      [] word = "bc" -> <<"b", "##c">>
      [] word = " "  -> <<>>

\* tokenizer.tokens_to_ids(tokens)
tokens_to_ids(toks) == [i \in 1..Len(toks) |-> token_dict[toks[i]]]

\* The results word_segment(text) can give: one word sequence per text
Texts == { <<>>, <<"a">>, <<"bc">>, <<"a", "bc">>, <<" ", "a">> }

\* The values np.random.random() can give, in hundredths
RandVals == {15, 16}

Capacities == 0..MaxCap

-----------------------------------------------------------------------------
(* sentence_process *)

IsMask(rand) == IF rand <= mask_rate THEN 1 ELSE 0

\* Mutant of WordMask: only the first sub-token of the word carries is_mask
WordMaskFirst(is_mask, word_tokens) ==
    IF Len(word_tokens) = 0 THEN <<>>
    ELSE <<is_mask>> \o Zeros(Len(word_tokens) - 1)

\* [is_mask] * len(word_tokens)
WordMask(is_mask, word_tokens) == Repeat(is_mask, Len(word_tokens))

\* Mutant of WordStep: the tokenizer is called with its defaults and wraps
\* the tokens of every word in [CLS] and [SEP]
WordStepMarkers(toks, mids, word, rand) ==
    LET word_tokens == <<"[CLS]">> \o tokenize(word) \o <<"[SEP]">>
    IN  <<toks \o word_tokens, mids \o WordMask(IsMask(rand), word_tokens)>>

\* One pass of the zip loop: the pair (tokens, mask_ids) after the word
WordStep(toks, mids, word, rand) ==
    LET word_tokens == tokenize(word)
    IN  <<toks \o word_tokens, mids \o WordMask(IsMask(rand), word_tokens)>>

RECURSIVE SentenceLoop(_, _, _, _, _)
SentenceLoop(ws, rands, i, toks, mids) ==
    IF i > Min(Len(ws), Len(rands)) THEN <<toks, mids>>
    ELSE LET s == WordStep(toks, mids, ws[i], rands[i])
         IN  SentenceLoop(ws, rands, i + 1, s[1], s[2])

\* sentence_process as a function of the words and the draws
SentenceProcess(ws, rands) ==
    LET s == SentenceLoop(ws, rands, 1, <<>>, <<>>)
    IN  <<tokens_to_ids(s[1]), s[2]>>

-----------------------------------------------------------------------------
(* padding and paragraph_process *)

\* Mutant of padding: pads without cutting to padding_length first
paddingNoCut(sequence) == sequence \o Zeros(padding_length - Len(sequence))

padding(sequence) ==
    LET s == PySlice(sequence, padding_length)
    IN  s \o Zeros(padding_length - Len(s))

\* Mutant of Truncate: cuts to padding_length - 1 ids, leaving no room for
\* the SEP
TruncateLate(sequence) == PySlice(sequence, padding_length - 1)

\* Mutant of Truncate: keeps the last padding_length - 2 ids, not the first
TruncateTail(sequence) ==
    IF padding_length - 2 < 0 THEN PySlice(sequence, padding_length - 2)
    ELSE SubSeq(sequence, Max(Len(sequence) - (padding_length - 2), 0) + 1,
                Len(sequence))

\* _token_ids[:self.padding_length - 2], _mask_ids[:self.padding_length - 2]
Truncate(sequence) == PySlice(sequence, padding_length - 2)

\* Mutant of Overflow: closes one id too late (no room kept for SEP)
OverflowLate(tids, utids) == Len(tids) + Len(utids) > padding_length

\* Mutant of Overflow: closes one id too early (sum = capacity - 1 closes)
OverflowEarly(tids, utids) == Len(tids) + Len(utids) >= padding_length - 1

Overflow(tids, utids) == Len(tids) + Len(utids) > padding_length - 1

\* Mutant of CloseWindow: the SEP is appended with mask 1
CloseWindowMaskedSep(tids, mids) ==
    <<padding(Append(tids, token_sep_id)), padding(Append(mids, 1))>>

\* The example stored when a window is closed
CloseWindow(tids, mids) ==
    <<padding(Append(tids, token_sep_id)), padding(Append(mids, 0))>>

\* Mutant of PackUnit: the unit that closes a window is not appended to the
\* reset accumulator
PackUnitDropsTrigger(tids, mids, res, utids, umids) ==
    LET tt == Truncate(utids)
        tm == Truncate(umids)
    IN  IF Overflow(tids, tt)
        THEN [token_ids |-> <<token_cls_id>>,
              mask_ids  |-> <<0>>,
              results   |-> Append(res, CloseWindow(tids, mids))]
        ELSE [token_ids |-> tids \o tt,
              mask_ids  |-> mids \o tm,
              results   |-> res]

\* Mutant of PackUnit: the overflow test uses the cut unit, but the uncut
\* unit is appended
PackUnitExtendsUncut(tids, mids, res, utids, umids) ==
    LET tt == Truncate(utids)
    IN  IF Overflow(tids, tt)
        THEN [token_ids |-> <<token_cls_id>> \o utids,
              mask_ids  |-> <<0>> \o umids,
              results   |-> Append(res, CloseWindow(tids, mids))]
        ELSE [token_ids |-> tids \o utids,
              mask_ids  |-> mids \o umids,
              results   |-> res]

\* Mutant of PackUnit: on overflow the example is stored but the accumulator
\* is not reset
PackUnitNoReset(tids, mids, res, utids, umids) ==
    LET tt == Truncate(utids)
        tm == Truncate(umids)
    IN  IF Overflow(tids, tt)
        THEN [token_ids |-> tids \o tt,
              mask_ids  |-> mids \o tm,
              results   |-> Append(res, CloseWindow(tids, mids))]
        ELSE [token_ids |-> tids \o tt,
              mask_ids  |-> mids \o tm,
              results   |-> res]

\* One pass of the for loop on the encoding (utids, umids) of a text:
\* the accumulator and the results after it
PackUnit(tids, mids, res, utids, umids) ==
    LET tt == Truncate(utids)
        tm == Truncate(umids)
    IN  IF Overflow(tids, tt)
        THEN [token_ids |-> <<token_cls_id>> \o tt,
              mask_ids  |-> <<0>> \o tm,
              results   |-> Append(res, CloseWindow(tids, mids))]
        ELSE [token_ids |-> tids \o tt,
              mask_ids  |-> mids \o tm,
              results   |-> res]

\* paragraph_process as a function of the texts (each its word sequence) and
\* of the stream of draws: each text takes the next len(words) draws.
\* st is the accumulator and the results before the remaining texts; u is
\* what sentence_process returns and s the state after the loop body (bound
\* through singleton sets, so that each is computed once).
RECURSIVE ParagraphLoop(_, _, _)
ParagraphLoop(texts, rands, st) ==
    IF texts = <<>> THEN st.results
    ELSE CHOOSE r \in
             { ParagraphLoop(Tail(texts),
                             SubSeq(rands, Len(Head(texts)) + 1, Len(rands)), s) :
                 s \in { PackUnit(st.token_ids, st.mask_ids, st.results,
                                  u[1], u[2]) :
                         u \in { SentenceProcess(Head(texts),
                                      SubSeq(rands, 1, Len(Head(texts)))) } } } : TRUE

ParagraphProcess(texts, rands) ==
    ParagraphLoop(texts, rands,
                  [token_ids |-> <<token_cls_id>>, mask_ids |-> <<0>>,
                   results |-> <<>>])

\* Mutant of tfrecord_serialize: the two lists are stored under each other's
\* name
tfrecord_serializeSwapped(res) ==
    [k \in 1..Len(res) |-> [token_ids |-> res[k][2], mask_ids |-> res[k][1]]]

\* tfrecord_serialize: one record per example, the two int64 lists by name
tfrecord_serialize(res) ==
    [k \in 1..Len(res) |-> [token_ids |-> res[k][1], mask_ids |-> res[k][2]]]

\* _parse_function of load_tfrecord: the two features are read by name as
\* FixedLenFeature([length], tf.int64); a list of another length does not
\* parse.  The value is the pair the dataset yields, ok tells that it parsed.
_parse_function(serialized, length) ==
    IF Len(serialized.token_ids) = length /\ Len(serialized.mask_ids) = length
    THEN [ok |-> TRUE,
          example |-> <<serialized.token_ids, serialized.mask_ids>>]
    ELSE [ok |-> FALSE, example |-> <<>>]

\* The state of the driver before process is called
NoBatch == [id |-> 0, results |-> <<>>, i |-> 0]
NotProduced == [done |-> FALSE, results |-> <<>>]

\* No other call of process has started
OtherIdle == [pc |-> "idle", batches |-> 0]

\* Values globals()['count'] may hold before the call
PriorCounts == {0, 3}

DriverIdle ==
    /\ dpc = "start"
    /\ writer = "none"
    /\ sink = <<>>
    /\ printed = -1
    /\ exhausted = FALSE
    /\ n_in = 0
    /\ in_queue = <<>>
    /\ running = {}
    /\ out_queue = <<>>
    /\ cb = NoBatch
    /\ produced = [p \in 1..MaxParas |-> NotProduced]
    /\ failed = {}
    /\ other = OtherIdle

-----------------------------------------------------------------------------
(* paragraph_process as a state machine *)

Init ==
    /\ padding_length \in Capacities
    /\ pc = "for"
    /\ token_ids = <<token_cls_id>>
    /\ mask_ids = <<0>>
    /\ results = <<>>
    /\ returned = <<>>
    /\ words = <<>>
    /\ widx = 1
    /\ tokens = <<>>
    /\ sent_mask_ids = <<>>
    /\ _token_ids = <<>>
    /\ _mask_ids = <<>>
    /\ units = <<>>
    /\ closes = <<>>
    /\ DriverIdle
    /\ count = 0

\* for text in texts: ... words = self.word_segment(text)
NextText ==
    /\ pc = "for"
    /\ Len(units) < MaxUnits
    /\ \E text \in Texts : words' = text
    /\ widx' = 1
    /\ tokens' = <<>>
    /\ sent_mask_ids' = <<>>
    /\ pc' = "zip"
    /\ UNCHANGED driverVars
    /\ UNCHANGED envVars
    /\ UNCHANGED <<padding_length, token_ids, mask_ids, results, returned,
                   _token_ids, _mask_ids, units, closes>>

\* for rand, word in zip(rands, words): ...
ZipStep ==
    /\ pc = "zip"
    /\ widx <= Len(words)
    /\ \E rand \in RandVals :
          LET s == WordStep(tokens, sent_mask_ids, words[widx], rand)
          IN  /\ tokens' = s[1]
              /\ sent_mask_ids' = s[2]
    /\ widx' = widx + 1
    /\ UNCHANGED driverVars
    /\ UNCHANGED envVars
    /\ UNCHANGED <<padding_length, pc, token_ids, mask_ids, results, returned,
                   words, _token_ids, _mask_ids, units, closes>>

\* return token_ids, mask_ids, received as _token_ids, _mask_ids
SentenceReturn ==
    /\ pc = "zip"
    /\ widx > Len(words)
    /\ _token_ids' = tokens_to_ids(tokens)
    /\ _mask_ids' = sent_mask_ids
    /\ pc' = "unit"
    /\ UNCHANGED driverVars
    /\ UNCHANGED envVars
    /\ UNCHANGED <<padding_length, token_ids, mask_ids, results, returned,
                   words, widx, tokens, sent_mask_ids, units, closes>>

\* The rest of the loop body: truncate, close on overflow, extend
PackText ==
    /\ pc = "unit"
    /\ LET s == PackUnit(token_ids, mask_ids, results, _token_ids, _mask_ids)
       IN  /\ token_ids' = s.token_ids
           /\ mask_ids' = s.mask_ids
           /\ results' = s.results
    /\ units' = Append(units, <<Truncate(_token_ids), Truncate(_mask_ids)>>)
    /\ closes' = IF Overflow(token_ids, Truncate(_token_ids))
                 THEN Append(closes, [len |-> Len(token_ids),
                                      at |-> Len(units) + 1])
                 ELSE closes
    /\ pc' = "for"
    /\ words' = <<>>
    /\ widx' = 1
    /\ tokens' = <<>>
    /\ sent_mask_ids' = <<>>
    /\ _token_ids' = <<>>
    /\ _mask_ids' = <<>>
    /\ UNCHANGED driverVars
    /\ UNCHANGED envVars
    /\ UNCHANGED <<padding_length, returned>>

\* Mutant of Return: the accumulator left by the loop is closed and returned too
ReturnFlush ==
    /\ pc = "for"
    /\ returned' = IF Len(token_ids) > 1
                   THEN Append(results, CloseWindow(token_ids, mask_ids))
                   ELSE results
    /\ pc' = "done"
    /\ UNCHANGED driverVars
    /\ UNCHANGED envVars
    /\ UNCHANGED <<padding_length, token_ids, mask_ids, results,
                   words, widx, tokens, sent_mask_ids, _token_ids, _mask_ids,
                   units, closes>>

\* return results
Return ==
    /\ pc = "for"
    /\ returned' = results
    /\ pc' = "done"
    /\ UNCHANGED driverVars
    /\ UNCHANGED envVars
    /\ UNCHANGED <<padding_length, token_ids, mask_ids, results,
                   words, widx, tokens, sent_mask_ids, _token_ids, _mask_ids,
                   units, closes>>

Next ==
    \/ NextText
    \/ ZipStep
    \/ SentenceReturn
    \/ PackText
    \/ Return

Spec == Init /\ [][Next]_vars

-----------------------------------------------------------------------------
(* process: the driver.  parallel_apply (bert4keras.utils) feeds the       *)
(* paragraphs of the corpus through a bounded queue to the workers, which  *)
(* run func on them, and hands each result to the callback, one call at a  *)
(* time, in the order the results arrive.                                  *)

\* The paragraphs the corpus can hold, each text by its word sequence
CorpusParagraphs ==
    { <<>>,
      << <<"a">>, <<"bc">> >>,
      << <<"a">>, <<"bc">>, <<"a">> >> }

\* The capacity process runs with: one at which CorpusParagraphs yield
\* zero, one and two examples
DriverCapacities == {3}

InitDriver ==
    /\ padding_length \in DriverCapacities
    /\ pc = "for"
    /\ token_ids = <<token_cls_id>>
    /\ mask_ids = <<0>>
    /\ results = <<>>
    /\ returned = <<>>
    /\ words = <<>>
    /\ widx = 1
    /\ tokens = <<>>
    /\ sent_mask_ids = <<>>
    /\ _token_ids = <<>>
    /\ _mask_ids = <<>>
    /\ units = <<>>
    /\ closes = <<>>
    /\ DriverIdle
    /\ count \in PriorCounts

\* writer = tf.io.TFRecordWriter(record_name); globals()['count'] = 0
ProcessStart ==
    /\ dpc = "start"
    /\ writer' = "open"
    /\ count' = 0
    /\ dpc' = "apply"
    /\ UNCHANGED <<sink, printed, exhausted, n_in, in_queue, running, out_queue,
                   cb, produced>>
    /\ UNCHANGED packVars
    /\ UNCHANGED envVars

\* parallel_apply: the next paragraph of the corpus enters the queue, when
\* the queue has room
Dispatch ==
    /\ dpc = "apply"
    /\ ~exhausted
    /\ n_in < MaxParas
    /\ Len(in_queue) < max_queue_size
    /\ \E texts \in CorpusParagraphs :
          in_queue' = Append(in_queue, [id |-> n_in + 1, texts |-> texts])
    /\ n_in' = n_in + 1
    /\ UNCHANGED <<dpc, writer, count, sink, printed, exhausted, running,
                   out_queue, cb, produced>>
    /\ UNCHANGED packVars
    /\ UNCHANGED envVars

\* parallel_apply: the corpus iterator ends
CorpusEnd ==
    /\ dpc = "apply"
    /\ ~exhausted
    /\ exhausted' = TRUE
    /\ UNCHANGED <<dpc, writer, count, sink, printed, n_in, in_queue, running,
                   out_queue, cb, produced>>
    /\ UNCHANGED packVars
    /\ UNCHANGED envVars

\* The draws a paragraph consumes: one per word
RECURSIVE TotalWords(_)
TotalWords(texts) ==
    IF texts = <<>> THEN 0 ELSE Len(Head(texts)) + TotalWords(Tail(texts))

\* func=paragraph_process of process
func(texts, rands) == tfrecord_serialize(ParagraphProcess(texts, rands))

\* parallel_apply: an idle worker takes the next paragraph
WorkerTake ==
    /\ Cardinality(running) < workers
    /\ in_queue # <<>>
    /\ running' = running \cup {Head(in_queue)}
    /\ in_queue' = Tail(in_queue)
    /\ UNCHANGED <<dpc, writer, count, sink, printed, exhausted, n_in,
                   out_queue, cb, produced>>
    /\ UNCHANGED packVars
    /\ UNCHANGED envVars

\* parallel_apply: a worker has run func on its paragraph and queues the
\* result for the callback
WorkerDone(job) ==
    /\ running' = running \ {job}
    /\ \E rands \in [1..TotalWords(job.texts) -> RandVals] :
          \E r \in {func(job.texts, rands)} :
              /\ out_queue' = Append(out_queue, [id |-> job.id, results |-> r])
              /\ produced' = [produced EXCEPT ![job.id] =
                                  [done |-> TRUE, results |-> r]]
    /\ UNCHANGED <<dpc, writer, count, sink, printed, exhausted, n_in,
                   in_queue, cb>>
    /\ UNCHANGED packVars
    /\ UNCHANGED envVars

\* Mutant of CountAfter: counts one per call instead of one per record
CountAfterPerCall(c, res) == c + 1

\* globals()['count'] += len(results)
CountAfter(c, res) == c + Len(res)

\* Mutant of RecordAt: the loop runs over the results backwards
RecordAtReversed(res, i) == res[Len(res) - i + 1]

\* for tf_serialized in results: the i-th record written
RecordAt(res, i) == res[i]

\* parallel_apply calls callback(result) for the next result that arrived;
\* write_to_tfrecord adds len(results) to the count
CallbackBegin ==
    /\ dpc = "apply"
    /\ cb = NoBatch
    /\ out_queue # <<>>
    /\ cb' = [id |-> Head(out_queue).id, results |-> Head(out_queue).results,
              i |-> 1]
    /\ count' = CountAfter(count, Head(out_queue).results)
    /\ out_queue' = Tail(out_queue)
    /\ UNCHANGED <<dpc, writer, sink, printed, exhausted, n_in, in_queue,
                   running, produced>>
    /\ UNCHANGED packVars
    /\ UNCHANGED envVars

\* writer.write(tf_serialized)
CallbackWrite ==
    /\ cb # NoBatch
    /\ cb.i <= Len(cb.results)
    /\ sink' = Append(sink, [para |-> cb.id, rec |-> RecordAt(cb.results, cb.i)])
    /\ cb' = [cb EXCEPT !.i = cb.i + 1]
    /\ UNCHANGED <<dpc, writer, count, printed, exhausted, n_in, in_queue,
                   running, out_queue, produced>>
    /\ UNCHANGED packVars
    /\ UNCHANGED envVars

\* write_to_tfrecord returns
CallbackReturn ==
    /\ cb # NoBatch
    /\ cb.i > Len(cb.results)
    /\ cb' = NoBatch
    /\ UNCHANGED <<dpc, writer, count, sink, printed, exhausted, n_in,
                   in_queue, running, out_queue, produced>>
    /\ UNCHANGED packVars
    /\ UNCHANGED envVars

\* Nothing is left in flight
Drained ==
    /\ exhausted
    /\ in_queue = <<>>
    /\ running = {}
    /\ out_queue = <<>>
    /\ cb = NoBatch

\* parallel_apply returns
ApplyReturn ==
    /\ dpc = "apply"
    /\ Drained
    /\ dpc' = "close"
    /\ UNCHANGED <<writer, count, sink, printed, exhausted, n_in, in_queue,
                   running, out_queue, cb, produced>>
    /\ UNCHANGED packVars
    /\ UNCHANGED envVars

\* Mutant of WriterClose: the writer is closed while parallel_apply still runs
WriterCloseEarly ==
    /\ dpc \in {"apply", "close"}
    /\ writer' = "closed"
    /\ dpc' = IF dpc = "close" THEN "print" ELSE dpc
    /\ UNCHANGED <<count, sink, printed, exhausted, n_in, in_queue, running,
                   out_queue, cb, produced>>
    /\ UNCHANGED packVars
    /\ UNCHANGED envVars

\* writer.close()
WriterClose ==
    /\ dpc = "close"
    /\ writer' = "closed"
    /\ dpc' = "print"
    /\ UNCHANGED <<count, sink, printed, exhausted, n_in, in_queue, running,
                   out_queue, cb, produced>>
    /\ UNCHANGED packVars
    /\ UNCHANGED envVars

\* print('write %s examples into %s' % (count, record_name))
PrintCount ==
    /\ dpc = "print"
    /\ printed' = count
    /\ dpc' = "done"
    /\ UNCHANGED <<writer, count, sink, exhausted, n_in, in_queue, running,
                   out_queue, cb, produced>>
    /\ UNCHANGED packVars
    /\ UNCHANGED envVars

NextDriver ==
    \/ ProcessStart
    \/ Dispatch
    \/ CorpusEnd
    \/ WorkerTake
    \/ \E job \in running : WorkerDone(job)
    \/ CallbackBegin
    \/ CallbackWrite
    \/ CallbackReturn
    \/ ApplyReturn
    \/ WriterClose
    \/ PrintCount

SpecDriver == InitDriver /\ [][NextDriver]_vars

\* The main loop and the pool's workers keep running while they can
FairSpecDriver == SpecDriver /\ WF_vars(NextDriver)

-----------------------------------------------------------------------------
(* process when a collaborator fails.  No function of data_utils.py has a  *)
(* try/except/finally: an exception of word_segment or of the tokenizer    *)
(* leaves sentence_process, paragraph_process and func unchanged, and an   *)
(* exception of the writer leaves write_to_tfrecord and process.           *)

\* func raises in a worker: word_segment or the tokenizer failed on a text of
\* the paragraph.  parallel_apply drops the paragraph and goes on with the
\* others.
WorkerRaise(job) ==
    /\ running' = running \ {job}
    /\ failed' = failed \cup {job.id}
    /\ UNCHANGED <<dpc, writer, count, sink, printed, exhausted, n_in,
                   in_queue, out_queue, cb, produced>>
    /\ UNCHANGED packVars
    /\ UNCHANGED other

\* writer.write(tf_serialized) raises: the exception leaves write_to_tfrecord,
\* parallel_apply and process; writer.close() and print are not reached
WriteRaise ==
    /\ dpc = "apply"
    /\ cb # NoBatch
    /\ cb.i <= Len(cb.results)
    /\ dpc' = "raised"
    /\ cb' = NoBatch
    /\ UNCHANGED <<writer, count, sink, printed, exhausted, n_in, in_queue,
                   running, out_queue, produced>>
    /\ UNCHANGED packVars
    /\ UNCHANGED envVars

\* writer.close() raises: the exception leaves process; print is not reached
CloseRaise ==
    /\ dpc = "close"
    /\ dpc' = "raised"
    /\ writer' = "close_failed"
    /\ UNCHANGED <<count, sink, printed, exhausted, n_in, in_queue, running,
                   out_queue, cb, produced>>
    /\ UNCHANGED packVars
    /\ UNCHANGED envVars

NextFail ==
    \/ NextDriver
    \/ \E job \in running : WorkerRaise(job)
    \/ WriteRaise
    \/ CloseRaise

SpecFail == InitDriver /\ [][NextFail]_vars

-----------------------------------------------------------------------------
(* A second call of process in the same module (another thread, or a call  *)
(* made before this one).  It has its own writer and file; what it shares  *)
(* with this call is globals()['count'].                                   *)

\* The other call starts: globals()['count'] = 0
OtherStart ==
    /\ other.pc = "idle"
    /\ other' = [other EXCEPT !.pc = "apply"]
    /\ count' = 0
    /\ UNCHANGED <<dpc, writer, sink, printed, exhausted, n_in, in_queue,
                   running, out_queue, cb, produced>>
    /\ UNCHANGED packVars
    /\ UNCHANGED failed

\* A callback of the other call: globals()['count'] += len(results), for the
\* results of one of its paragraphs
OtherCallback ==
    /\ other.pc = "apply"
    /\ other.batches < MaxOtherBatches
    /\ other' = [other EXCEPT !.batches = other.batches + 1]
    /\ \E texts \in CorpusParagraphs :
          \E rands \in [1..TotalWords(texts) -> RandVals] :
              count' = CountAfter(count, func(texts, rands))
    /\ UNCHANGED <<dpc, writer, sink, printed, exhausted, n_in, in_queue,
                   running, out_queue, cb, produced>>
    /\ UNCHANGED packVars
    /\ UNCHANGED failed

\* The other call closes its writer, prints and returns
OtherReturn ==
    /\ other.pc = "apply"
    /\ other' = [other EXCEPT !.pc = "done"]
    /\ UNCHANGED driverVars
    /\ UNCHANGED packVars
    /\ UNCHANGED failed

NextTwoCalls ==
    \/ NextDriver
    \/ OtherStart
    \/ OtherCallback
    \/ OtherReturn

SpecTwoCalls == InitDriver /\ [][NextTwoCalls]_vars

\* What the print of process shows: the values its format takes
PrintedLine == [count |-> printed, record_name |-> "record_name"]

-----------------------------------------------------------------------------
(* Notions the properties of the packer are stated with *)

RECURSIVE Flat(_)
\* The concatenation of a sequence of sequences
Flat(ss) == IF ss = <<>> THEN <<>> ELSE Head(ss) \o Flat(Tail(ss))

IsPrefix(s, t) == Len(s) <= Len(t) /\ SubSeq(t, 1, Len(s)) = s

\* The tokens (c = 1) or masks (c = 2) of the units i..j, concatenated
UnitsFlat(c, i, j) == Flat([n \in 1..(j - i + 1) |-> units[i + n - 1][c]])

\* The SEP of the k-th emitted example is at position SepPos(k), when it is
\* there: the accumulator held closes[k].len ids when the window was closed
SepPos(k) == closes[k].len + 1

HasSep(k) == SepPos(k) <= Len(results[k][1])

\* What the k-th example holds between its CLS and its SEP
Content(c, k) ==
    IF HasSep(k) THEN SubSeq(results[k][c], 2, closes[k].len) ELSE <<>>

\* The first unit of the k-th window
FirstUnit(k) == IF k = 1 THEN 1 ELSE closes[k - 1].at

\* Some emitted example is followed by padding, and some holds a masked token
SomePadded ==
    \E k \in 1..Len(results) : HasSep(k) /\ SepPos(k) < Len(results[k][1])

SomeMasked ==
    \E k \in 1..Len(results) : \E p \in 1..Len(results[k][2]) :
        results[k][2][p] = 1

-----------------------------------------------------------------------------
(* C1: every example paragraph_process emits has exactly padding_length   *)
(* token ids and exactly padding_length mask ids, for every capacity and   *)
(* every paragraph.                                                        *)
C1_Length ==
    /\ \A k \in 1..Len(results) :
          /\ Len(results[k][1]) = padding_length
          /\ Len(results[k][2]) = padding_length
    /\ \A k \in 1..Len(returned) :
          /\ Len(returned[k][1]) = padding_length
          /\ Len(returned[k][2]) = padding_length

\* Examples were returned, one that needed padding and one that was cut
C1_Witness ==
    /\ pc = "done"
    /\ Len(returned) >= 2
    /\ \/ padding_length = 1
       \/ SomePadded

(* C2, as stated: every emitted example starts with CLS (mask 0) and holds *)
(* the SEP appended on close (mask 0) right before its padding.            *)
StartsWithCls(k) ==
    /\ Len(results[k][1]) >= 1 /\ Len(results[k][2]) >= 1
    /\ results[k][1][1] = token_cls_id
    /\ results[k][2][1] = 0

EndsWithSep(k) ==
    /\ HasSep(k)
    /\ SepPos(k) <= Len(results[k][2])
    /\ results[k][1][SepPos(k)] = token_sep_id
    /\ results[k][2][SepPos(k)] = 0
    /\ \A p \in (SepPos(k) + 1)..Len(results[k][1]) : results[k][1][p] = 0

C2_Original ==
    /\ Len(closes) = Len(results)
    /\ \A k \in 1..Len(results) : StartsWithCls(k) /\ EndsWithSep(k)

(* C2, amended: for padding_length >= 2, every emitted example starts with *)
(* CLS (mask 0) and holds the SEP appended on close (mask 0) right before  *)
(* its padding; the pad step never cuts the SEP off.                       *)
C2_ClsSep == padding_length >= 2 => C2_Original

\* A window that is full (SEP in the last position) and one that is padded
C2_Witness ==
    /\ padding_length >= 2
    /\ Len(closes) = Len(results)
    /\ \E k \in 1..Len(results) : SepPos(k) = padding_length
    /\ SomePadded

(* C3: in every emitted example all positions after the appended SEP are 0 *)
(* in both sequences, and the mask is 0 at the CLS position, at the SEP    *)
(* position and at every padded position.                                  *)
C3_Padding ==
    /\ Len(closes) = Len(results)
    /\ \A k \in 1..Len(results) :
          /\ Len(results[k][1]) = Len(results[k][2])
          /\ \A p \in 1..Len(results[k][2]) :
                /\ p = 1 => results[k][2][p] = 0
                /\ p = SepPos(k) => results[k][2][p] = 0
                /\ p > SepPos(k) =>
                      results[k][1][p] = 0 /\ results[k][2][p] = 0

\* A padded example that carries a masked token
C3_Witness ==
    /\ Len(closes) = Len(results)
    /\ \E k \in 1..Len(results) :
          /\ HasSep(k) /\ SepPos(k) < Len(results[k][1])
          /\ \E p \in 2..closes[k].len : results[k][2][p] = 1

(* C4: sentence_process gives all sub-tokens of one word the same mask     *)
(* value, for every text and every outcome of the draws.                   *)
RECURSIVE Offset(_, _)
\* The number of tokens the words before the i-th produce
Offset(ws, i) ==
    IF i <= 1 THEN 0 ELSE Offset(ws, i - 1) + Len(tokenize(ws[i - 1]))

WholeWord(ws, n, mids) ==
    /\ Len(mids) = Offset(ws, n + 1)
    /\ \A i \in 1..n :
          \A p, q \in (Offset(ws, i) + 1)..Offset(ws, i + 1) :
              mids[p] = mids[q]

C4_WholeWord ==
    /\ pc = "zip" => WholeWord(words, widx - 1, sent_mask_ids)
    /\ pc = "unit" => WholeWord(words, Len(words), _mask_ids)

\* A text of two words returned with the two-token word masked, the other not
C4_Witness ==
    /\ pc = "unit"
    /\ words = <<"a", "bc">>
    /\ _mask_ids = <<0, 1, 1>>

(* C5: paragraph_process emits only windows closed by an overflow event:   *)
(* there is one example per overflow event, the value returned is the      *)
(* list of those examples (the accumulator left by the loop is not added), *)
(* and a paragraph whose units all fit yields no example.                  *)
AllFit == 1 + Len(UnitsFlat(1, 1, Len(units))) <= padding_length - 1

C5_OnlyOverflow ==
    /\ Len(results) = Len(closes)
    /\ pc = "done" =>
          /\ returned = results
          /\ Len(returned) = Len(closes)
          /\ AllFit => returned = <<>>

\* A paragraph returned no example and left content in the accumulator; or
\* returned after an overflow, again leaving content in the accumulator
C5_Witness ==
    /\ pc = "done"
    /\ Len(token_ids) > 1
    /\ \/ returned = <<>> /\ Len(units) >= 2 /\ AllFit
       \/ Len(returned) = 1 /\ Len(units) = 3

(* C6, as stated: the window is closed exactly when len(accumulator) +     *)
(* len(truncated unit) > capacity - 1; on close the example CLS +          *)
(* accumulated units + SEP + zero padding is emitted, the accumulator is   *)
(* reset to ([CLS], [0]) and the unit is appended to it; otherwise the     *)
(* unit is appended to the accumulator and nothing is emitted.             *)
Closed(tids, mids) ==
    <<tids \o <<token_sep_id>> \o Zeros(padding_length - Len(tids) - 1),
      mids \o <<0>> \o Zeros(padding_length - Len(mids) - 1)>>

LoopBody ==
    LET tt == units'[Len(units')][1]
        tm == units'[Len(units')][2]
    IN  IF Len(token_ids) + Len(tt) > padding_length - 1
        THEN /\ results' = Append(results, Closed(token_ids, mask_ids))
             /\ token_ids' = <<token_cls_id>> \o tt
             /\ mask_ids' = <<0>> \o tm
        ELSE /\ results' = results
             /\ token_ids' = token_ids \o tt
             /\ mask_ids' = mask_ids \o tm

C6_Original == [][pc = "unit" /\ pc' = "for" => LoopBody]_vars

(* C6, amended: for padding_length >= 2, the statement above.              *)
C6_Overflow ==
    [][pc = "unit" /\ pc' = "for" /\ padding_length >= 2 => LoopBody]_vars

\* Units filled the accumulator to exactly capacity - 1 without closing; the
\* next unit closed the window and is what the accumulator now holds
C6_Witness ==
    /\ padding_length >= 2
    /\ pc = "for"
    /\ Len(closes) >= 1
    /\ closes[Len(closes)].at = Len(units)
    /\ closes[Len(closes)].len = padding_length - 1
    /\ Len(token_ids) > 1
    /\ token_ids = <<token_cls_id>> \o units[Len(units)][1]

(* C7: the contents of the emitted examples (between CLS and SEP, tokens   *)
(* and masks), concatenated in emission order, are a prefix of the         *)
(* concatenation of the truncated unit encodings in input order, and each  *)
(* window holds whole consecutive units: none is split, reordered or       *)
(* repeated.                                                               *)
C7_Order ==
    /\ Len(closes) = Len(results)
    /\ \A c \in 1..2 :
          /\ IsPrefix(Flat([k \in 1..Len(results) |-> Content(c, k)]),
                      UnitsFlat(c, 1, Len(units)))
          /\ \A k \in 1..Len(results) :
                HasSep(k) =>
                    Content(c, k) = UnitsFlat(c, FirstUnit(k), closes[k].at - 1)

\* Two windows with different contents were emitted
C7_Witness ==
    /\ Len(closes) = Len(results)
    /\ Len(results) >= 2
    /\ HasSep(1) /\ HasSep(2)
    /\ Content(1, 1) # <<>>
    /\ Content(1, 1) # Content(1, 2)

-----------------------------------------------------------------------------
(* Notions the properties of the driver are stated with *)

\* The records of paragraph p in the file, in the order they were written
RECURSIVE RecordsOf(_, _)
RecordsOf(p, written) ==
    IF written = <<>> THEN <<>>
    ELSE IF Head(written).para = p
         THEN <<Head(written).rec>> \o RecordsOf(p, Tail(written))
         ELSE RecordsOf(p, Tail(written))

\* The number of examples the paragraphs 1..n emitted
RECURSIVE Emitted(_)
Emitted(n) == IF n = 0 THEN 0 ELSE Len(produced[n].results) + Emitted(n - 1)

\* Every paragraph taken from the corpus has all its records in the file
AllWritten ==
    \A p \in 1..n_in :
        produced[p].done /\ RecordsOf(p, sink) = produced[p].results

C10_Finalize ==
    /\ <>(dpc = "done" /\ writer = "closed" /\ printed = count)
    /\ [](writer = "closed" => Drained /\ AllWritten)
    /\ [](printed # -1 => writer = "closed")
    /\ [][writer = "closed" => sink' = sink]_vars
    /\ [][printed # -1 => count' = count /\ printed' = printed]_vars

\* A run that wrote the records of two paragraphs has closed and printed
C10_Witness ==
    /\ dpc = "done"
    /\ writer = "closed"
    /\ printed = count
    /\ \E i, k \in 1..Len(sink) : sink[i].para # sink[k].para

-----------------------------------------------------------------------------
(* C14: reading back a record written from an emitted example, with the    *)
(* same capacity, gives the example: _parse_function parses every record   *)
(* tfrecord_serialize makes of the examples paragraph_process emits, and   *)
(* yields the same token ids and the same mask ids.                        *)
RoundTrip(res) ==
    \A k \in 1..Len(res) :
        _parse_function(tfrecord_serialize(res)[k], padding_length) =
            [ok |-> TRUE, example |-> res[k]]

-----------------------------------------------------------------------------
(* C15, as stated: the encoding of each unit is cut to at most             *)
(* padding_length - 2 ids before the overflow test; the leading ids are    *)
(* kept, tokens and masks are cut to the same length, and so one unit      *)
(* always fits into a freshly reset window together with CLS and SEP.      *)
Truncated ==
    LET tt == units'[Len(units')][1]
        tm == units'[Len(units')][2]
        n  == Len(token_ids')
    IN  /\ Len(tt) = Len(tm)
        /\ Len(tt) = Min(Len(_token_ids), padding_length - 2)
        /\ IsPrefix(tt, _token_ids)
        /\ IsPrefix(tm, _mask_ids)
        /\ Len(tt) <= n
        /\ SubSeq(token_ids', n - Len(tt) + 1, n) = tt
        /\ SubSeq(mask_ids', n - Len(tt) + 1, n) = tm
        /\ Len(closes') > Len(closes) <=>
              Len(token_ids) + Len(tt) > padding_length - 1
        /\ 1 + Len(tt) + 1 <= padding_length
        /\ Len(closes') > Len(closes) =>
              /\ token_ids' = <<token_cls_id>> \o tt
              /\ Len(token_ids') + 1 <= padding_length

C15_Original == [][pc = "unit" /\ pc' = "for" => Truncated]_vars

(* C15, amended: for padding_length >= 2, the statement above.             *)
C15_Truncate ==
    [][pc = "unit" /\ pc' = "for" /\ padding_length >= 2 => Truncated]_vars

\* With capacity 3 the two-token word "bc" closed a window and was cut to
\* its first token, which the reset accumulator now holds after the CLS
C15_Witness ==
    /\ padding_length = 3
    /\ pc = "for"
    /\ Len(closes) >= 1
    /\ closes[Len(closes)].at = Len(units)
    /\ token_ids = <<token_cls_id, token_dict["b"]>>
    /\ Len(mask_ids) = 2

-----------------------------------------------------------------------------
(* C16: sentence_process returns token ids and mask ids of equal length;   *)
(* the token ids are those of the words' tokens, word after word in the    *)
(* order of the input words, and hold no CLS and no SEP.                   *)
\* The tokens of the first n words, in word order
WordTokens(ws, n) == Flat([i \in 1..n |-> tokenize(ws[i])])

C16_Sentence ==
    /\ pc = "zip" =>
          /\ Len(tokens) = Len(sent_mask_ids)
          /\ tokens = WordTokens(words, widx - 1)
    /\ pc = "unit" =>
          /\ Len(_token_ids) = Len(_mask_ids)
          /\ _token_ids = tokens_to_ids(WordTokens(words, Len(words)))
          /\ \A p \in 1..Len(_token_ids) :
                _token_ids[p] \notin {token_cls_id, token_sep_id}

\* A text of a one-token and a two-token word was returned: three ids, in
\* word order, and three mask ids
C16_Witness ==
    /\ pc = "unit"
    /\ words = <<"a", "bc">>
    /\ _token_ids = <<token_dict["a"], token_dict["b"], token_dict["##c"]>>
    /\ Len(_mask_ids) = 3

-----------------------------------------------------------------------------
(* C17: for padding_length >= 2, at the top of every pass of the loop and  *)
(* after every unit is appended the accumulator starts with CLS and holds  *)
(* 1 <= len(token_ids) = len(mask_ids) <= padding_length - 1 ids; so the   *)
(* SEP appended on close never makes it longer than padding_length, and    *)
(* the pad step cuts nothing: each example is the accumulator, the SEP and *)
(* zeros.                                                                  *)
C17_Accumulator ==
    padding_length >= 2 =>
        /\ 1 <= Len(token_ids)
        /\ Len(token_ids) = Len(mask_ids)
        /\ Len(token_ids) <= padding_length - 1
        /\ token_ids[1] = token_cls_id /\ mask_ids[1] = 0
        /\ Len(closes) = Len(results)
        /\ \A k \in 1..Len(results) :
              /\ 1 <= closes[k].len /\ closes[k].len + 1 <= padding_length
              /\ \A c \in 1..2 :
                    /\ Len(results[k][c]) = padding_length
                    /\ \A p \in (closes[k].len + 2)..padding_length :
                          results[k][c][p] = 0
              /\ results[k][1][closes[k].len + 1] = token_sep_id

\* The accumulator is full (padding_length - 1 ids) after a window was
\* closed that was full too: its SEP is the last id, nothing was padded
C17_Witness ==
    /\ padding_length >= 3
    /\ pc = "for"
    /\ Len(token_ids) = padding_length - 1
    /\ Len(closes) = Len(results)
    /\ \E k \in 1..Len(results) : SepPos(k) = padding_length

-----------------------------------------------------------------------------
(* C18: for padding_length >= 2, every emitted example holds at least one  *)
(* content token between its CLS and its SEP: no window of CLS, SEP and    *)
(* padding only is emitted, also when units encode to no token at all.     *)
C18_Content ==
    padding_length >= 2 =>
        /\ Len(closes) = Len(results)
        /\ \A k \in 1..Len(results) :
              /\ closes[k].len >= 2
              /\ HasSep(k)
              /\ Content(1, k) # <<>>
              /\ results[k][1][1] = token_cls_id
              /\ results[k][1][2] \notin {token_cls_id, token_sep_id, 0}

\* A paragraph that starts with a unit without tokens and holds another one
\* right before the unit that closed a window
C18_Witness ==
    /\ padding_length >= 2
    /\ Len(results) >= 1
    /\ Len(closes) = Len(results)
    /\ units[1][1] = <<>>
    /\ \E k \in 1..Len(closes) :
          closes[k].at >= 3 /\ units[closes[k].at - 1][1] = <<>>

-----------------------------------------------------------------------------
(* C19, as stated: after each processed unit, the content tokens of the    *)
(* emitted examples plus the len(token_ids) - 1 tokens the accumulator     *)
(* holds after its CLS are as many as the sum over the processed units of  *)
(* min(len(unit), padding_length - 2); so what a paragraph loses is the    *)
(* accumulator left at the end, at most padding_length - 2 tokens.         *)
\* The content tokens emitted so far plus those the accumulator holds
Held ==
    Len(Flat([k \in 1..Len(results) |-> Content(1, k)])) + Len(token_ids) - 1

Conserved ==
    /\ Len(closes) = Len(results)
    /\ Held = Len(UnitsFlat(1, 1, Len(units)))
    /\ Len(units) >= 1 => Len(token_ids) - 1 <= padding_length - 2
    /\ pc = "done" =>
          /\ returned = results
          /\ Flat([k \in 1..Len(returned) |-> Content(1, k)])
                 \o SubSeq(token_ids, 2, Len(token_ids))
               = UnitsFlat(1, 1, Len(units))

C19_Original ==
    /\ []Conserved
    /\ [][pc = "unit" /\ pc' = "for" =>
            Held' = Held + Min(Len(_token_ids), padding_length - 2)]_vars

(* C19, amended: for padding_length >= 2, the statement above.             *)
C19_Conservation ==
    /\ [](padding_length >= 2 => Conserved)
    /\ [][pc = "unit" /\ pc' = "for" /\ padding_length >= 2 =>
            Held' = Held + Min(Len(_token_ids), padding_length - 2)]_vars

\* Four units, one of them cut, gave two examples and an accumulator that
\* holds the cut unit: what the paragraph loses when it returns
C19_Witness ==
    /\ padding_length = 3
    /\ pc = "done"
    /\ Len(units) = 4
    /\ Len(returned) = 2
    /\ token_ids = <<token_cls_id, token_dict["b"]>>

-----------------------------------------------------------------------------
(* C11: when word_segment or the tokenizer fails on a unit, only that      *)
(* paragraph is dropped: the run goes on to its end, the records of every  *)
(* other paragraph are written, the writer is closed, and the number of    *)
(* dropped paragraphs is shown.                                            *)
C11_DropParagraph ==
    dpc = "done" /\ failed # {} =>
        /\ writer = "closed"
        /\ \A p \in 1..n_in :
              IF p \in failed
              THEN RecordsOf(p, sink) = <<>>
              ELSE produced[p].done /\ RecordsOf(p, sink) = produced[p].results
        /\ "dropped" \in DOMAIN PrintedLine
        /\ PrintedLine.dropped = Cardinality(failed)

(* C12: a failure of the writer (write or close) is fatal for the run:     *)
(* once process has left with the failure no paragraph is taken from the   *)
(* corpus any more and no count is printed, and process has tried to flush *)
(* the records completed so far, that is, it has called writer.close().    *)
C12_SinkFatal ==
    /\ [](dpc = "raised" =>
            /\ printed = -1
            /\ writer \in {"closed", "close_failed"})
    /\ [][dpc = "raised" => n_in' = n_in /\ printed' = printed]_vars

-----------------------------------------------------------------------------
(* C20: the count a call of process prints counts the records that call    *)
(* wrote and no others: the call sets globals()['count'] to 0 when it      *)
(* starts, and no other call of process, made before it or running while   *)
(* it runs, changes the value it prints.                                   *)
C20_OwnCount ==
    /\ [][dpc = "start" /\ dpc' = "apply" => count' = 0]_vars
    /\ [](dpc = "done" => printed = Len(sink))

====
